---- MODULE Spec2Model ----
(***************************************************************************)
(* Model of the FakeGotchis data comparison tool:                          *)
(*   src/subgraph-comparison.ts   paginated fetch, grouping of tokens into *)
(*                                collections, token diff, positional      *)
(*                                collection diff, driver (main)           *)
(*   src/contract-comparison.ts   keyed collection diff against contract   *)
(*                                metadata                                 *)
(* Strings are TLA+ strings, so the template literal of the grouping key   *)
(* is a real concatenation.  A JavaScript Map is a sequence of             *)
(* [key, value] entries in insertion order.  null is the record NULL.      *)
(***************************************************************************)
EXTENDS Integers, Sequences, FiniteSets

\* ---------------------------------------------------------------- bounds
\* longest token list handed to groupIntoCollections
MaxGroupTokens == 3
\* number of token identifiers of the token diff (each list holds every
\* identifier at most once, so it is also the longest list)
MaxTokens == 2
\* number of collection ids of the keyed collection diff
MaxCols == 2
\* most tokens a subgraph holds
MaxServer == 5
\* runs of main over the same results folder
MaxRuns == 2

\* ----------------------------------------------------- program constants
\* fetchAllData: the page size, 1000 in the source, scaled down
batchSize == 2
\* fetchAllData: the record cap, 50000 in the source, scaled down to the
\* same kind of value, a multiple of the page size
maxResults == 4
\* fetchContractMetadata: the collections read between two delays, 10 in the
\* source, scaled down
contractBatchSize == 2

\* ------------------------------------------------------- value domains
\* names and artist names: "a-b"/"c" and "a"/"b-c" share the text "a-b-c";
\* "A" differs from "a" by case only
Names == {"a", "A", "a-b"}
Artists == {"c", "b-c"}
Editions == {3, 4}

NULL == [null |-> TRUE]

\* ------------------------------------------------------------- helpers
Digits == <<"0", "1", "2", "3", "4", "5", "6", "7", "8", "9">>

\* Number.prototype.toString() of a non-negative integer: its decimal digits
RECURSIVE toString(_)
toString(n) ==
  IF n < 10 THEN Digits[n + 1]
  ELSE toString(n \div 10) \o Digits[(n % 10) + 1]

\* Map.prototype.has
MapHas(m, k) == \E i \in DOMAIN m : m[i].key = k

\* Map.prototype.get of a key the map holds
MapGet(m, k) == m[CHOOSE i \in DOMAIN m : m[i].key = k].value

\* Map.prototype.set: an existing key keeps its position, a new key is
\* appended
MapSet(m, k, v) ==
  IF MapHas(m, k)
    THEN [i \in DOMAIN m |-> IF m[i].key = k THEN [key |-> k, value |-> v] ELSE m[i]]
    ELSE Append(m, [key |-> k, value |-> v])

\* Array.from(map.values())
MapValues(m) == [i \in DOMAIN m |-> m[i].value]

\* new Map(array.map(item => [keyOf(item), item])): built by successive set
RECURSIVE MapFromEntries(_, _)
MapFromEntries(keys, items) ==
  IF items = <<>> THEN <<>>
  ELSE LET n == Len(items)
       IN MapSet(MapFromEntries(SubSeq(keys, 1, n - 1), SubSeq(items, 1, n - 1)),
                 keys[n], items[n])

\* ----------------------------------------------------------- variables
VARIABLES
  tokens,       \* groupIntoCollections: the argument
  grouped,      \* groupIntoCollections: the returned array
  gpc,          \* "call" before the call, "done" after, "off" when unused
  data1,        \* findDifferences: the first token list (subgraph 1)
  data2,        \* findDifferences: the second token list (prod)
  differences,  \* findDifferences: the returned array
  dpc,          \* "call" before the call, "done" after, "off" when unused
  contractData,          \* compareCollectionData: Record<string, ContractMetadata>,
                         \* its entries in the order Object.entries gives
  collectionsData,       \* compareCollectionData: the subgraph collections
  aggregatedDifferences, \* compareCollectionData: the returned array
  kpc,          \* "call" before the call, "done" after, "off" when unused
  collections1,          \* findCollectionDifferences: the first collection list
  collections2,          \* findCollectionDifferences: the second collection list
  collectionDifferences, \* findCollectionDifferences: the returned array
  ppc,          \* "call" before the call, "done" after, "off" when unused
  files,        \* the results folder: file name -> absent, or its content
  pc,           \* main of subgraph-comparison.ts: "side1", "fetch1", "side2",
                \* "fetch2", "compare", "done", "aborted"; "off" when unused
  run,          \* the number of the current run of main
  server,       \* side -> the token list the subgraph of that side holds
  allTokens,    \* fetchAllData: the tokens collected so far
  hasMore,      \* fetchAllData: the loop flag
  skip,         \* fetchAllData: the offset of the next request
  requests,     \* the requests sent to a subgraph in the current run
  lastBatch,    \* the length of the latest batch of the current fetch, -1: none
  failedSide,   \* the side whose fetch failed in the current run, 0: none
  filesAtStart, \* the results folder as the current run found it
  fetchedNow,   \* the sides whose fetch has completed in the current run
  prevFetched,  \* the sides whose fetch completed in the run before
  completed,    \* the sides whose fetch has completed in some run
  cpc,          \* main of contract-comparison.ts: "start", "reading", "delay",
                \* "compare", "done", "error"; "off" when unused
  subgraphData, \* fetchContractMetadata: the loaded token list
  reads,        \* the collection ids getMetadata was called with, in order
  failed,       \* the places of the collection list whose read failed
  lastMetadata, \* fetchContractMetadata: metadata, what the latest read returned
  errorMessage  \* the message main's catch logged, "" when none

groupVars == <<tokens, grouped, gpc>>
diffVars == <<data1, data2, differences, dpc>>
keyedVars == <<contractData, collectionsData, aggregatedDifferences, kpc>>
posVars == <<collections1, collections2, collectionDifferences, ppc>>
fetchVars == <<allTokens, hasMore, skip, requests, lastBatch>>
mainVars == <<pc, run, server, fetchVars, failedSide, filesAtStart, fetchedNow,
              prevFetched, completed>>
contractRunVars == <<cpc, subgraphData, reads, failed, lastMetadata, errorMessage>>
vars == <<groupVars, diffVars, keyedVars, posVars, files, mainVars,
          contractRunVars>>

\* --------------------------------------------------- groupIntoCollections
\* the template literal `${token.name}-${token.artistName}`
CollectionKey(token) == token.name \o "-" \o token.artistName

\* the else branch: a new collection for a key seen for the first time
NewCollection(token) ==
  [id |-> "", name |-> token.name, artistName |-> token.artistName,
   editions |-> 1, tokenIds |-> <<token.identifier>>]

AddToCollection_NoCount(collection, token) ==
  [collection EXCEPT !.tokenIds = Append(@, token.identifier)]

\* the then branch: editions++ and tokenIds.push(identifier)
AddToCollection(collection, token) ==
  [collection EXCEPT !.editions = @ + 1,
                     !.tokenIds = Append(@, token.identifier)]

\* one iteration of the for loop over the tokens
GroupStep(collections, token) ==
  LET collectionKey == CollectionKey(token)
  IN IF MapHas(collections, collectionKey)
       THEN MapSet(collections, collectionKey,
                   AddToCollection(MapGet(collections, collectionKey), token))
       ELSE MapSet(collections, collectionKey, NewCollection(token))

\* the map after the loop has consumed toks, in order
RECURSIVE GroupLoop(_)
GroupLoop(toks) ==
  IF toks = <<>> THEN <<>>
  ELSE GroupStep(GroupLoop(SubSeq(toks, 1, Len(toks) - 1)), toks[Len(toks)])

AssignId_ZeroBased(collection, index) == [collection EXCEPT !.id = toString(index)]

\* the callback of collectionsArray.map: index is the 0-based array index
AssignId(collection, index) == [collection EXCEPT !.id = toString(index + 1)]

groupIntoCollections(toks) ==
  LET collectionsArray == MapValues(GroupLoop(toks))
  IN [i \in DOMAIN collectionsArray |-> AssignId(collectionsArray[i], i - 1)]

\* --------------------------------------------------------- findDifferences
\* the object literal copied out of a token
TokenSnapshot(item) ==
  [name |-> item.name, artistName |-> item.artistName,
   editions |-> item.editions, identifier |-> item.identifier]

MissingInProd_WrongTag(item1) ==
  [id |-> item1.identifier, differences |-> <<"missing_in_subgraph1">>,
   subgraph1 |-> TokenSnapshot(item1), prod |-> NULL]

\* the record of a token of data1 that data2Map does not hold
MissingInProd(item1) ==
  [id |-> item1.identifier, differences |-> <<"missing_in_prod">>,
   subgraph1 |-> TokenSnapshot(item1), prod |-> NULL]

\* the record of a token of data2 whose identifier is not in data1Ids
MissingInSubgraph1(item2) ==
  [id |-> item2.identifier, differences |-> <<"missing_in_subgraph1">>,
   subgraph1 |-> NULL, prod |-> TokenSnapshot(item2)]

DiffFields_NoEditions(item1, item2) ==
  (IF item1.name # item2.name THEN <<"name">> ELSE <<>>)
    \o (IF item1.artistName # item2.artistName THEN <<"artistName">> ELSE <<>>)

\* the inner loop over ["name", "artistName", "editions"] with !==
DiffFields(item1, item2) ==
  (IF item1.name # item2.name THEN <<"name">> ELSE <<>>)
    \o (IF item1.artistName # item2.artistName THEN <<"artistName">> ELSE <<>>)
    \o (IF item1.editions # item2.editions THEN <<"editions">> ELSE <<>>)

\* the record of a token that both lists hold with some field different
FieldDifference(item1, item2, diffFields) ==
  [id |-> item1.identifier, differences |-> diffFields,
   subgraph1 |-> TokenSnapshot(item1), prod |-> TokenSnapshot(item2)]

\* one iteration of the loop over data1
DiffStep1(differencesMap, data2Map, item1) ==
  IF ~MapHas(data2Map, item1.identifier)
    THEN MapSet(differencesMap, item1.identifier, MissingInProd(item1))
    ELSE LET item2 == MapGet(data2Map, item1.identifier)
             diffFields == DiffFields(item1, item2)
         IN IF Len(diffFields) > 0
              THEN MapSet(differencesMap, item1.identifier,
                          FieldDifference(item1, item2, diffFields))
              ELSE differencesMap

RECURSIVE DiffLoop1(_, _)
DiffLoop1(d1, data2Map) ==
  IF d1 = <<>> THEN <<>>
  ELSE DiffStep1(DiffLoop1(SubSeq(d1, 1, Len(d1) - 1), data2Map), data2Map,
                 d1[Len(d1)])

\* one iteration of the loop over data2
DiffStep2(differencesMap, data1Ids, item2) ==
  IF item2.identifier \notin data1Ids
    THEN MapSet(differencesMap, item2.identifier, MissingInSubgraph1(item2))
    ELSE differencesMap

RECURSIVE DiffLoop2(_, _, _)
DiffLoop2(differencesMap, data1Ids, d2) ==
  IF d2 = <<>> THEN differencesMap
  ELSE DiffStep2(DiffLoop2(differencesMap, data1Ids, SubSeq(d2, 1, Len(d2) - 1)),
                 data1Ids, d2[Len(d2)])

findDifferences(d1, d2) ==
  LET data2Map == MapFromEntries([i \in DOMAIN d2 |-> d2[i].identifier], d2)
      data1Ids == {d1[i].identifier : i \in DOMAIN d1}
  IN MapValues(DiffLoop2(DiffLoop1(d1, data2Map), data1Ids, d2))

\* ------------------------------------------------ findCollectionDifferences
\* the three if statements on name, artistName and editions
CollectionDiffTypes(col1, col2) ==
  (IF col1.name # col2.name THEN <<"name">> ELSE <<>>)
    \o (IF col1.artistName # col2.artistName THEN <<"artistName">> ELSE <<>>)
    \o (IF col1.editions # col2.editions THEN <<"editions">> ELSE <<>>)

\* the object literal copied out of a collection
CollectionSnapshot(col) ==
  [name |-> col.name, artistName |-> col.artistName, editions |-> col.editions]

LoopBound_Min(cols1, cols2) ==
  IF Len(cols1) <= Len(cols2) THEN Len(cols1) ELSE Len(cols2)

\* Math.max(collections1.length, collections2.length)
LoopBound(cols1, cols2) ==
  IF Len(cols1) >= Len(cols2) THEN Len(cols1) ELSE Len(cols2)

RecordId_OneBased(i) == toString(i + 1)

\* const id = i.toString(): the id of the record for the 0-based index i
RecordId(i) == toString(i)

\* the body of the loop for the 0-based index i: the map after it
PositionalStep(differencesMap, cols1, cols2, i) ==
  LET id == RecordId(i)
  IN IF i >= Len(cols1)
       THEN MapSet(differencesMap, id,
                   [id |-> id, differences |-> <<"missing_in_subgraph1">>,
                    prod |-> CollectionSnapshot(cols2[i + 1]), subgraph1 |-> NULL])
     ELSE IF i >= Len(cols2)
       THEN MapSet(differencesMap, id,
                   [id |-> id, differences |-> <<"missing_in_prod">>,
                    subgraph1 |-> CollectionSnapshot(cols1[i + 1]), prod |-> NULL])
     ELSE LET diffTypes == CollectionDiffTypes(cols1[i + 1], cols2[i + 1])
          IN IF Len(diffTypes) > 0
               THEN MapSet(differencesMap, id,
                           [id |-> id, differences |-> diffTypes,
                            subgraph1 |-> CollectionSnapshot(cols1[i + 1]),
                            prod |-> CollectionSnapshot(cols2[i + 1])])
               ELSE differencesMap

\* the map after the iterations 0 .. n-1
RECURSIVE PositionalLoop(_, _, _)
PositionalLoop(cols1, cols2, n) ==
  IF n = 0 THEN <<>>
  ELSE PositionalStep(PositionalLoop(cols1, cols2, n - 1), cols1, cols2, n - 1)

findCollectionDifferences(cols1, cols2) ==
  MapValues(PositionalLoop(cols1, cols2, LoopBound(cols1, cols2)))

\* -------------------------------------------------------------- saveToFile
FileNames ==
  {"subgraph1_data.json", "prod_data.json", "subgraph_differences.json",
   "subgraph1_collections.json", "prod_collections.json",
   "collection_differences.json", "contract_metadata.json",
   "contract_collections.json", "contract_collection_differences.json",
   "contract_collection_aggregated_differences.json"}

NoFile == [exists |-> FALSE]

\* an empty results folder
NoFiles == [f \in FileNames |-> NoFile]

\* fs.writeFileSync(filePath, JSON.stringify(data, null, 2)): the file is
\* created or overwritten; the data written are arrays and objects of strings,
\* numbers and null, which JSON.parse gives back as they were
saveToFile(fs, data, filename) ==
  [fs EXCEPT ![filename] = [exists |-> TRUE, content |-> data]]

\* --------------------------------------------------- compareCollectionData
DigitValue(c) == CHOOSE d \in 0..9 : Digits[d + 1] = c

\* parseInt of a string of decimal digits
RECURSIVE parseInt(_)
parseInt(str) ==
  IF Len(str) = 1 THEN DigitValue(str)
  ELSE 10 * parseInt(SubSeq(str, 1, Len(str) - 1))
         + DigitValue(SubSeq(str, Len(str), Len(str)))

\* the callback of Object.entries(contractData).forEach
ContractCollection(id, metadata) ==
  [name |-> metadata.name, artistName |-> metadata.artistName,
   editions |-> parseInt(toString(metadata.editions)), id |-> id]

\* Object.values(contractCollections): the keys are integer-like, so the
\* object keeps them in the ascending order Object.entries gave them in
ContractCollectionsArray(cData) ==
  [i \in DOMAIN cData |-> ContractCollection(cData[i].key, cData[i].value)]

\* the keys of a map, in insertion order
MapKeys(m) == [i \in DOMAIN m |-> m[i].key]

\* new Set(array): the first occurrence of every element, in order
RECURSIVE Unique(_)
Unique(seq) ==
  IF seq = <<>> THEN <<>>
  ELSE LET front == Unique(SubSeq(seq, 1, Len(seq) - 1))
           last == seq[Len(seq)]
       IN IF \E i \in DOMAIN front : front[i] = last THEN front
          ELSE Append(front, last)

AllIds_SubgraphOnly(subgraphCollectionsMap, contractCollectionsMap) ==
  Unique(MapKeys(subgraphCollectionsMap))

\* new Set([...subgraphCollectionsMap.keys(), ...contractCollectionsMap.keys()])
AllIds(subgraphCollectionsMap, contractCollectionsMap) ==
  Unique(MapKeys(subgraphCollectionsMap) \o MapKeys(contractCollectionsMap))

\* the callback of allIds.forEach: the records it pushes for id
KeyedCompare(id, subgraphCollectionsMap, contractCollectionsMap) ==
  IF ~MapHas(subgraphCollectionsMap, id)
    THEN <<[id |-> id, differences |-> <<"missing_in_subgraph">>,
            subgraph |-> NULL, contract |-> MapGet(contractCollectionsMap, id)]>>
  ELSE IF ~MapHas(contractCollectionsMap, id)
    THEN <<[id |-> id, differences |-> <<"missing_in_contract">>,
            subgraph |-> MapGet(subgraphCollectionsMap, id), contract |-> NULL]>>
  ELSE LET colFromSubgraph == MapGet(subgraphCollectionsMap, id)
           colFromContract == MapGet(contractCollectionsMap, id)
           diffTypes == CollectionDiffTypes(colFromSubgraph, colFromContract)
       IN IF Len(diffTypes) > 0
            THEN <<[id |-> id, differences |-> diffTypes,
                    subgraph |-> colFromSubgraph, contract |-> colFromContract]>>
            ELSE <<>>

RECURSIVE KeyedLoop(_, _, _)
KeyedLoop(ids, subgraphCollectionsMap, contractCollectionsMap) ==
  IF ids = <<>> THEN <<>>
  ELSE KeyedLoop(SubSeq(ids, 1, Len(ids) - 1), subgraphCollectionsMap,
                 contractCollectionsMap)
         \o KeyedCompare(ids[Len(ids)], subgraphCollectionsMap,
                         contractCollectionsMap)

\* the array compareCollectionData returns
compareCollectionData(cData, colsData) ==
  LET contractCollectionsArray == ContractCollectionsArray(cData)
      subgraphCollectionsMap ==
        MapFromEntries([i \in DOMAIN colsData |-> colsData[i].id], colsData)
      contractCollectionsMap ==
        MapFromEntries([i \in DOMAIN contractCollectionsArray |->
                          contractCollectionsArray[i].id],
                       contractCollectionsArray)
  IN KeyedLoop(AllIds(subgraphCollectionsMap, contractCollectionsMap),
               subgraphCollectionsMap, contractCollectionsMap)

\* ------------------------------------------------------------ fetchAllData
\* what a subgraph holding data answers to a query with first and skip
ServerBatch(data, first, skipped) ==
  SubSeq(data, skipped + 1,
         IF skipped + first <= Len(data) THEN skipped + first ELSE Len(data))

\* the while condition
LoopContinues(more, collected) == more /\ Len(collected) < maxResults

HasMoreAfter_FullPagesOnly(batch) == Len(batch) >= batchSize

\* hasMore after a batch: false after batch.length === 0 only
HasMoreAfter(batch) == Len(batch) # 0

\* allTokens after a batch
TokensAfter(collected, batch) ==
  IF Len(batch) = 0 THEN collected ELSE collected \o batch

\* skip after a batch
SkipAfter(skipped, batch) ==
  IF Len(batch) = 0 THEN skipped ELSE skipped + Len(batch)

\* -------------------------------------------- main of subgraph-comparison.ts
Sides == {1, 2}

SnapshotFile(s) == IF s = 1 THEN "subgraph1_data.json" ELSE "prod_data.json"

SidePc(s) == IF s = 1 THEN "side1" ELSE "side2"
FetchPc(s) == IF s = 1 THEN "fetch1" ELSE "fetch2"
AfterSide(s) == IF s = 1 THEN "side2" ELSE "compare"

SnapshotExists_Never(fs, s) == FALSE

\* fs.existsSync of the token snapshot of side s
SnapshotExists(fs, s) == fs[SnapshotFile(s)].exists

\* processDataFromFile: JSON.parse of what saveToFile wrote
processDataFromFile(fs, filename) == fs[filename].content

FilesAfterFailure_SavePartial(fs, s, collected) ==
  saveToFile(fs, collected, SnapshotFile(s))

\* the results folder when the fetch of side s throws: the exception leaves
\* fetchAllData and the try block of main, the catch only logs
FilesAfterFailure(fs, s, collected) == fs

\* the four saves after both token lists are there
FilesAfterCompare(fs, diffs, cols1, cols2, colDiffs) ==
  saveToFile(
    saveToFile(
      saveToFile(
        saveToFile(fs, diffs, "subgraph_differences.json"),
        cols1, "subgraph1_collections.json"),
      cols2, "prod_collections.json"),
    colDiffs, "collection_differences.json")

\* ------------------------------------------------- fetchContractMetadata
CollectionsFile == "subgraph1_collections.json"
SubgraphDataFile == "subgraph1_data.json"

CollectionsMissing ==
  "Collections data file does not exist. Run subgraph-comparison.ts first."
SubgraphDataMissing ==
  "Subgraph data file does not exist. Run subgraph-comparison.ts first."

LoadError_NoStage(fs) ==
  IF ~fs[CollectionsFile].exists THEN "File subgraph1_collections.json does not exist"
  ELSE IF ~fs[SubgraphDataFile].exists THEN "File subgraph1_data.json does not exist"
  ELSE ""

\* the message of the error loadCollectionsData or loadSubgraphData throws,
\* "" when both files exist; the collections are loaded first
LoadError(fs) ==
  IF ~fs[CollectionsFile].exists THEN CollectionsMissing
  ELSE IF ~fs[SubgraphDataFile].exists THEN SubgraphDataMissing
  ELSE ""

StoreMetadata_Stored(cData, collectionId, md) == MapSet(cData, collectionId, md)

\* contractData after a read that succeeded: the assignment
\* contractData[collectionId] = metadata is commented out
StoreMetadata(cData, collectionId, md) == cData

\* where the run is after the read of the k-th of n collections: the inner
\* loop goes on, or the batch is over and the delay follows
PcAfterRead(k, n) ==
  IF k % contractBatchSize = 0 \/ k = n THEN "delay" ELSE "reading"

PcAfterFailedRead_Abort(k, n) == "error"

\* the same after a read that threw: the catch is inside the inner loop
PcAfterFailedRead(k, n) == PcAfterRead(k, n)

\* ------------------------------------------------------------- compareData
\* the record compareData pushes for one collection, if any
CompareDataRecord(collection, cData) ==
  IF ~MapHas(cData, collection.id)
    THEN <<[id |-> collection.id, differences |-> <<"missing_in_contract">>,
            subgraph |-> CollectionSnapshot(collection), contract |-> NULL]>>
  ELSE LET contractMetadata == MapGet(cData, collection.id)
           diffTypes ==
             (IF collection.name # contractMetadata.name THEN <<"name">> ELSE <<>>)
               \o (IF collection.artistName # contractMetadata.artistName
                     THEN <<"artistName">> ELSE <<>>)
               \o (IF collection.editions # parseInt(toString(contractMetadata.editions))
                     THEN <<"editions">> ELSE <<>>)
       IN IF Len(diffTypes) > 0
            THEN <<[id |-> collection.id, differences |-> diffTypes,
                    subgraph |-> CollectionSnapshot(collection),
                    contract |-> [name |-> contractMetadata.name,
                                  artistName |-> contractMetadata.artistName,
                                  editions |-> toString(contractMetadata.editions),
                                  identifier |-> toString(contractMetadata.identifier)]]>>
            ELSE <<>>

RECURSIVE compareData(_, _)
compareData(cData, colsData) ==
  IF colsData = <<>> THEN <<>>
  ELSE compareData(cData, SubSeq(colsData, 1, Len(colsData) - 1))
         \o CompareDataRecord(colsData[Len(colsData)], cData)

\* the four saves of a run of contract-comparison.ts
FilesAfterContractRun(fs, cData, colsData) ==
  saveToFile(
    saveToFile(
      saveToFile(
        saveToFile(fs, cData, "contract_metadata.json"),
        compareData(cData, colsData), "contract_collection_differences.json"),
      ContractCollectionsArray(cData), "contract_collections.json"),
    compareCollectionData(cData, colsData),
    "contract_collection_aggregated_differences.json")

\* ------------------------------------------------- specification SpecGroup
\* token lists as a subgraph serves them: the k-th token has identifier k
TokenSeqs(names, n) ==
  UNION {{[i \in 1..k |-> [id |-> toString(i), identifier |-> toString(i),
                           name |-> a[i][1],
                           artistName |-> a[i][2], editions |-> a[i][3]]] :
            a \in [1..k -> names \X Artists \X Editions]} : k \in 0..n}

GroupInputs == TokenSeqs(Names, MaxGroupTokens)

GroupIdle == tokens = <<>> /\ grouped = <<>> /\ gpc = "off"

DiffIdle == data1 = <<>> /\ data2 = <<>> /\ differences = <<>> /\ dpc = "off"

KeyedIdle ==
  /\ contractData = <<>>
  /\ collectionsData = <<>>
  /\ aggregatedDifferences = <<>>
  /\ kpc = "off"

MainIdle ==
  /\ pc = "off"
  /\ run = 0
  /\ server = <<>>
  /\ allTokens = <<>>
  /\ hasMore = FALSE
  /\ skip = 0
  /\ requests = 0
  /\ lastBatch = -1
  /\ failedSide = 0
  /\ filesAtStart = NoFiles
  /\ fetchedNow = {}
  /\ prevFetched = {}
  /\ completed = {}

ContractRunIdle ==
  /\ cpc = "off"
  /\ subgraphData = <<>>
  /\ reads = <<>>
  /\ failed = {}
  /\ lastMetadata = NULL
  /\ errorMessage = ""

PosIdle ==
  /\ collections1 = <<>>
  /\ collections2 = <<>>
  /\ collectionDifferences = <<>>
  /\ ppc = "off"

GroupInit == tokens \in GroupInputs /\ grouped = <<>> /\ gpc = "call"

Group ==
  /\ gpc = "call"
  /\ grouped' = groupIntoCollections(tokens)
  /\ gpc' = "done"
  /\ UNCHANGED tokens

SpecGroupInit == GroupInit /\ DiffIdle /\ KeyedIdle /\ PosIdle /\ files = NoFiles /\ MainIdle
  /\ ContractRunIdle
SpecGroupNext == Group /\ UNCHANGED <<diffVars, keyedVars, posVars, files, mainVars, contractRunVars>>
SpecGroup == SpecGroupInit /\ [][SpecGroupNext]_vars

\* ------------------------------------------------ specification SpecTokens
\* the elements of the set S of numbers, in increasing order
RECURSIVE Sorted(_)
Sorted(S) ==
  IF S = {} THEN <<>>
  ELSE LET m == CHOOSE x \in S : \A y \in S : y <= x
       IN Append(Sorted(S \ {m}), m)

DiffNames == {"a", "A"}

\* token lists as a subgraph serves them: ordered by identifier, every
\* identifier at most once
TokenLists ==
  UNION {{LET ids == Sorted(S)
          IN [i \in DOMAIN ids |-> [id |-> toString(ids[i]),
                                    identifier |-> toString(ids[i]),
                                    name |-> a[ids[i]][1],
                                    artistName |-> a[ids[i]][2],
                                    editions |-> a[ids[i]][3]]] :
            a \in [S -> DiffNames \X Artists \X Editions]} :
         S \in SUBSET (1..MaxTokens)}

DiffInit ==
  /\ data1 \in TokenLists
  /\ data2 \in TokenLists
  /\ differences = <<>>
  /\ dpc = "call"

Compare ==
  /\ dpc = "call"
  /\ differences' = findDifferences(data1, data2)
  /\ dpc' = "done"
  /\ UNCHANGED <<data1, data2>>

SpecTokensInit == DiffInit /\ GroupIdle /\ KeyedIdle /\ PosIdle /\ files = NoFiles /\ MainIdle
  /\ ContractRunIdle
SpecTokensNext == Compare /\ UNCHANGED <<groupVars, keyedVars, posVars, files, mainVars, contractRunVars>>
SpecTokens == SpecTokensInit /\ [][SpecTokensNext]_vars

\* ------------------------------------------------- specification SpecKeyed
\* editions as the contract returns them (uint256)
ContractEditions == {4, 10}

\* the subgraph collections as groupIntoCollections numbers them: the k-th has
\* id k
CollectionLists ==
  UNION {{[i \in 1..k |-> [id |-> toString(i), name |-> a[i][1],
                           artistName |-> a[i][2], editions |-> a[i][3]]] :
            a \in [1..k -> DiffNames \X Artists \X Editions]} : k \in 0..MaxCols}

\* contract metadata for a set of collection ids, keyed by the id
ContractDatas ==
  UNION {{LET ids == Sorted(S)
          IN [i \in DOMAIN ids |->
                [key |-> toString(ids[i]),
                 value |-> [name |-> a[ids[i]][1], artistName |-> a[ids[i]][2],
                            editions |-> a[ids[i]][3], identifier |-> ids[i]]]] :
            a \in [S -> DiffNames \X Artists \X ContractEditions]} :
         S \in SUBSET (1..MaxCols)}

KeyedInit ==
  /\ contractData \in ContractDatas
  /\ collectionsData \in CollectionLists
  /\ aggregatedDifferences = <<>>
  /\ kpc = "call"

\* the call of compareCollectionData: it saves the contract collections and
\* returns the differences
CompareKeyed ==
  /\ kpc = "call"
  /\ files' = saveToFile(files, ContractCollectionsArray(contractData),
                         "contract_collections.json")
  /\ aggregatedDifferences' = compareCollectionData(contractData, collectionsData)
  /\ kpc' = "done"
  /\ UNCHANGED <<contractData, collectionsData>>

SpecKeyedInit == KeyedInit /\ GroupIdle /\ DiffIdle /\ PosIdle /\ files = NoFiles /\ MainIdle
  /\ ContractRunIdle
SpecKeyedNext == CompareKeyed /\ UNCHANGED <<groupVars, diffVars, posVars, mainVars, contractRunVars>>
SpecKeyed == SpecKeyedInit /\ [][SpecKeyedNext]_vars

\* -------------------------------------------- specification SpecPositional
\* collection lists as main hands them over: each is groupIntoCollections of
\* a token list
GroupedLists == {groupIntoCollections(t) : t \in TokenSeqs(DiffNames, MaxGroupTokens)}

PosInit ==
  /\ collections1 \in GroupedLists
  /\ collections2 \in GroupedLists
  /\ collectionDifferences = <<>>
  /\ ppc = "call"

ComparePositional ==
  /\ ppc = "call"
  /\ collectionDifferences' = findCollectionDifferences(collections1, collections2)
  /\ ppc' = "done"
  /\ UNCHANGED <<collections1, collections2>>

SpecPositionalInit == PosInit /\ GroupIdle /\ DiffIdle /\ KeyedIdle /\ files = NoFiles /\ MainIdle
  /\ ContractRunIdle
SpecPositionalNext == ComparePositional /\ UNCHANGED <<groupVars, diffVars, keyedVars, files, mainVars, contractRunVars>>
SpecPositional == SpecPositionalInit /\ [][SpecPositionalNext]_vars

\* ------------------------------------------------------ specification Spec
\* the runs of main of subgraph-comparison.ts over one results folder, with
\* both subgraph URLs set
ServerTokens(n, nm) ==
  [i \in 1..n |-> [id |-> toString(i), identifier |-> toString(i), name |-> nm,
                   artistName |-> IF i % 2 = 1 THEN "c" ELSE "b-c",
                   editions |-> 3]]

ServerDatasets == {ServerTokens(n, nm) : n \in 0..MaxServer, nm \in DiffNames}

MainInit ==
  /\ pc = "side1"
  /\ run = 1
  /\ server \in [Sides -> ServerDatasets]
  /\ allTokens = <<>>
  /\ hasMore = FALSE
  /\ skip = 0
  /\ requests = 0
  /\ lastBatch = -1
  /\ failedSide = 0
  /\ files = NoFiles
  /\ filesAtStart = NoFiles
  /\ fetchedNow = {}
  /\ prevFetched = {}
  /\ completed = {}

\* main keeps the token list of side s in data1 or data2
SetData(s, value) ==
  IF s = 1 THEN data1' = value /\ UNCHANGED data2
  ELSE data2' = value /\ UNCHANGED data1

mainIdleVars == <<groupVars, keyedVars, dpc, ppc, contractRunVars>>

\* the snapshot of side s exists: it is loaded
LoadSide(s) ==
  /\ pc = SidePc(s)
  /\ SnapshotExists(files, s)
  /\ SetData(s, processDataFromFile(files, SnapshotFile(s)))
  /\ pc' = AfterSide(s)
  /\ UNCHANGED <<mainIdleVars, differences, collections1, collections2,
                 collectionDifferences, files, run, server, fetchVars,
                 failedSide, filesAtStart, fetchedNow, prevFetched, completed>>

\* the snapshot of side s does not exist: fetchAllData is called
BeginFetch(s) ==
  /\ pc = SidePc(s)
  /\ ~SnapshotExists(files, s)
  /\ allTokens' = <<>>
  /\ hasMore' = TRUE
  /\ skip' = 0
  /\ lastBatch' = -1
  /\ pc' = FetchPc(s)
  /\ UNCHANGED <<mainIdleVars, diffVars, posVars, files, run, server, requests,
                 failedSide, filesAtStart, fetchedNow, prevFetched, completed>>

\* one iteration of the while loop: a request, answered with a batch
FetchBatch(s) ==
  /\ pc = FetchPc(s)
  /\ LoopContinues(hasMore, allTokens)
  /\ LET batch == ServerBatch(server[s], batchSize, skip)
     IN /\ hasMore' = (hasMore /\ HasMoreAfter(batch))
        /\ allTokens' = TokensAfter(allTokens, batch)
        /\ skip' = SkipAfter(skip, batch)
        /\ lastBatch' = Len(batch)
  /\ requests' = requests + 1
  /\ UNCHANGED <<mainIdleVars, diffVars, posVars, files, pc, run, server,
                 failedSide, filesAtStart, fetchedNow, prevFetched, completed>>

\* one iteration of the while loop: a request that fails (fetch rejects, the
\* body is no JSON, or the answer has no data); main catches and logs
FetchFails(s) ==
  /\ pc = FetchPc(s)
  /\ LoopContinues(hasMore, allTokens)
  /\ requests' = requests + 1
  /\ files' = FilesAfterFailure(files, s, allTokens)
  /\ failedSide' = s
  /\ pc' = "aborted"
  /\ UNCHANGED <<mainIdleVars, diffVars, posVars, run, server, allTokens, hasMore,
                 skip, lastBatch, filesAtStart, fetchedNow, prevFetched, completed>>

\* the while loop ends: fetchAllData returns and main saves the snapshot
FetchReturn(s) ==
  /\ pc = FetchPc(s)
  /\ ~LoopContinues(hasMore, allTokens)
  /\ SetData(s, allTokens)
  /\ files' = saveToFile(files, allTokens, SnapshotFile(s))
  /\ fetchedNow' = fetchedNow \cup {s}
  /\ completed' = completed \cup {s}
  /\ pc' = AfterSide(s)
  /\ UNCHANGED <<mainIdleVars, differences, collections1, collections2,
                 collectionDifferences, run, server, fetchVars, failedSide,
                 filesAtStart, prevFetched>>

\* both token lists are there: the two diffs and the two groupings, each saved
CompareAll ==
  /\ pc = "compare"
  /\ differences' = findDifferences(data1, data2)
  /\ collections1' = groupIntoCollections(data1)
  /\ collections2' = groupIntoCollections(data2)
  /\ collectionDifferences' =
       findCollectionDifferences(groupIntoCollections(data1),
                                 groupIntoCollections(data2))
  /\ files' = FilesAfterCompare(files, differences', collections1', collections2',
                                collectionDifferences')
  /\ pc' = "done"
  /\ UNCHANGED <<mainIdleVars, data1, data2, run, server, fetchVars, failedSide,
                 filesAtStart, fetchedNow, prevFetched, completed>>

\* the tool is started again over the same results folder
Rerun ==
  /\ pc \in {"done", "aborted"}
  /\ run < MaxRuns
  /\ run' = run + 1
  /\ pc' = "side1"
  /\ data1' = <<>>
  /\ data2' = <<>>
  /\ differences' = <<>>
  /\ collections1' = <<>>
  /\ collections2' = <<>>
  /\ collectionDifferences' = <<>>
  /\ allTokens' = <<>>
  /\ hasMore' = FALSE
  /\ skip' = 0
  /\ requests' = 0
  /\ lastBatch' = -1
  /\ failedSide' = 0
  /\ filesAtStart' = files
  /\ prevFetched' = fetchedNow
  /\ fetchedNow' = {}
  /\ UNCHANGED <<mainIdleVars, files, server, completed>>

Init == MainInit /\ GroupIdle /\ DiffIdle /\ KeyedIdle /\ PosIdle /\ ContractRunIdle

Next ==
  \/ \E s \in Sides : LoadSide(s)
  \/ \E s \in Sides : BeginFetch(s)
  \/ \E s \in Sides : FetchBatch(s)
  \/ \E s \in Sides : FetchFails(s)
  \/ \E s \in Sides : FetchReturn(s)
  \/ CompareAll
  \/ Rerun

Spec == Init /\ [][Next]_vars

\* ---------------------------------------------- specification SpecContract
\* a run of main of contract-comparison.ts over a results folder that a run of
\* subgraph-comparison.ts has filled, or from which a snapshot is missing
ContractRunTokens ==
  {t \in TokenSeqs(DiffNames, MaxGroupTokens) : \A i \in DOMAIN t : t[i].editions = 3}

ResultsFolder(data, haveData, haveCollections) ==
  [f \in FileNames |->
     IF f = SubgraphDataFile /\ haveData
       THEN [exists |-> TRUE, content |-> data]
     ELSE IF f = CollectionsFile /\ haveCollections
       THEN [exists |-> TRUE, content |-> groupIntoCollections(data)]
     ELSE NoFile]

\* what getMetadata may return for a collection id
ContractMetadatas(collectionId) ==
  {[name |-> nm, artistName |-> ar, editions |-> ed,
    identifier |-> parseInt(collectionId)] :
     nm \in DiffNames, ar \in Artists, ed \in ContractEditions}

ContractRunInit ==
  /\ \E data \in ContractRunTokens, haveData \in BOOLEAN, haveCollections \in BOOLEAN :
       files = ResultsFolder(data, haveData, haveCollections)
  /\ filesAtStart = files
  /\ cpc = "start"
  /\ subgraphData = <<>>
  /\ reads = <<>>
  /\ failed = {}
  /\ lastMetadata = NULL
  /\ errorMessage = ""
  /\ pc = "off"
  /\ run = 0
  /\ server = <<>>
  /\ allTokens = <<>>
  /\ hasMore = FALSE
  /\ skip = 0
  /\ requests = 0
  /\ lastBatch = -1
  /\ failedSide = 0
  /\ fetchedNow = {}
  /\ prevFetched = {}
  /\ completed = {}

contractIdleVars == <<groupVars, diffVars, posVars, mainVars, kpc>>

\* both snapshots exist: they are loaded and the loop is entered
LoadData ==
  /\ cpc = "start"
  /\ LoadError(files) = ""
  /\ collectionsData' = processDataFromFile(files, CollectionsFile)
  /\ subgraphData' = processDataFromFile(files, SubgraphDataFile)
  /\ cpc' = IF Len(collectionsData') = 0 THEN "compare" ELSE "reading"
  /\ UNCHANGED <<contractIdleVars, contractData, aggregatedDifferences, files,
                 reads, failed, lastMetadata, errorMessage>>

\* a snapshot is missing: the loader throws and main's catch logs the message
LoadFails ==
  /\ cpc = "start"
  /\ LoadError(files) # ""
  /\ errorMessage' = LoadError(files)
  /\ cpc' = "error"
  /\ UNCHANGED <<contractIdleVars, keyedVars, files, subgraphData, reads, failed,
                 lastMetadata>>

\* getMetadata of the next collection returns
ReadSucceeds ==
  /\ cpc = "reading"
  /\ LET k == Len(reads) + 1
         collectionId == collectionsData[k].id
     IN /\ reads' = Append(reads, collectionId)
        /\ \E md \in ContractMetadatas(collectionId) :
             /\ lastMetadata' = md
             /\ contractData' = StoreMetadata(contractData, collectionId, md)
        /\ cpc' = PcAfterRead(k, Len(collectionsData))
  /\ UNCHANGED <<contractIdleVars, collectionsData, aggregatedDifferences, files,
                 subgraphData, failed, errorMessage>>

\* getMetadata of the next collection throws: the catch logs it
ReadFails ==
  /\ cpc = "reading"
  /\ LET k == Len(reads) + 1
     IN /\ reads' = Append(reads, collectionsData[k].id)
        /\ failed' = failed \cup {k}
        /\ cpc' = PcAfterFailedRead(k, Len(collectionsData))
  /\ UNCHANGED <<contractIdleVars, keyedVars, files, subgraphData, lastMetadata,
                 errorMessage>>

\* the delay after a batch is over
BatchDelay ==
  /\ cpc = "delay"
  /\ cpc' = IF Len(reads) = Len(collectionsData) THEN "compare" ELSE "reading"
  /\ UNCHANGED <<contractIdleVars, keyedVars, files, subgraphData, reads, failed,
                 lastMetadata, errorMessage>>

\* the loop is over: the contract metadata is saved, and main compares and
\* saves
FinishContract ==
  /\ cpc = "compare"
  /\ collectionDifferences' = compareData(contractData, collectionsData)
  /\ aggregatedDifferences' = compareCollectionData(contractData, collectionsData)
  /\ files' = FilesAfterContractRun(files, contractData, collectionsData)
  /\ cpc' = "done"
  /\ UNCHANGED <<groupVars, diffVars, mainVars, kpc, collections1, collections2, ppc,
                 contractData, collectionsData, subgraphData, reads, failed,
                 lastMetadata, errorMessage>>

SpecContractInit ==
  /\ ContractRunInit
  /\ GroupIdle
  /\ DiffIdle
  /\ KeyedIdle
  /\ PosIdle

SpecContractNext ==
  \/ LoadData
  \/ LoadFails
  \/ ReadSucceeds
  \/ ReadFails
  \/ BatchDelay
  \/ FinishContract

SpecContract == SpecContractInit /\ [][SpecContractNext]_vars

\* ------------------------------------------------------ claims on grouping
\* the number of places of the tokenIds of collection c that hold identifier id
Occurrences(c, id) == Cardinality({j \in DOMAIN c.tokenIds : c.tokenIds[j] = id})

\* the collections whose tokenIds hold identifier id
Holders(id) == {k \in DOMAIN grouped : Occurrences(grouped[k], id) > 0}

RECURSIVE SumEditions(_)
SumEditions(cols) ==
  IF cols = <<>> THEN 0
  ELSE cols[Len(cols)].editions + SumEditions(SubSeq(cols, 1, Len(cols) - 1))

\* C1: after groupIntoCollections, every collection's editions is the length of
\* its tokenIds, every input token is recorded once, in exactly one collection,
\* and the editions of all collections add up to the length of the input
C1_GroupingPartition ==
  gpc = "done" =>
    /\ \A k \in DOMAIN grouped : grouped[k].editions = Len(grouped[k].tokenIds)
    /\ \A i \in DOMAIN tokens :
         /\ Cardinality(Holders(tokens[i].identifier)) = 1
         /\ \A k \in Holders(tokens[i].identifier) :
              Occurrences(grouped[k], tokens[i].identifier) = 1
    /\ SumEditions(grouped) = Len(tokens)

\* three tokens grouped into two collections, the second holding two of them
C1_Witness ==
  /\ gpc = "done"
  /\ Len(tokens) = 3
  /\ Len(grouped) = 2
  /\ grouped[2].editions = 2

SamePair(t, u) == t.name = u.name /\ t.artistName = u.artistName

SameCollection(i, j) ==
  \E k \in DOMAIN grouped :
    /\ Occurrences(grouped[k], tokens[i].identifier) > 0
    /\ Occurrences(grouped[k], tokens[j].identifier) > 0

\* C2: two tokens are put in the same collection if and only if their names are
\* equal and their artist names are equal
C2_SameCollectionIffSamePair ==
  gpc = "done" =>
    \A i, j \in DOMAIN tokens :
      SameCollection(i, j) <=> SamePair(tokens[i], tokens[j])

\* the input places whose token has the (name, artistName) pair of collection c
PlacesOf(c) == {i \in DOMAIN tokens : SamePair(tokens[i], c)}

FirstSeen(c) == CHOOSE i \in PlacesOf(c) : \A j \in PlacesOf(c) : i <= j

Ids1 == {data1[i].identifier : i \in DOMAIN data1}
Ids2 == {data2[i].identifier : i \in DOMAIN data2}

\* the places of the returned array whose record is about identifier id
RecordsFor(id) == {k \in DOMAIN differences : differences[k].id = id}

\* what a record shows of token t: its name, artistName, editions, identifier
Shows(snapshot, t) ==
  snapshot = [name |-> t.name, artistName |-> t.artistName,
              editions |-> t.editions, identifier |-> t.identifier]

\* C4: an identifier that only data1 holds has exactly one record, tagged only
\* missing_in_prod, with the data1 token shown and prod null; an identifier
\* that only data2 holds has exactly one record, tagged only
\* missing_in_subgraph1, with the data2 token shown and subgraph1 null
C4_OneSidedTokens ==
  dpc = "done" =>
    /\ \A i \in DOMAIN data1 :
         data1[i].identifier \notin Ids2 =>
           /\ Cardinality(RecordsFor(data1[i].identifier)) = 1
           /\ \A k \in RecordsFor(data1[i].identifier) :
                /\ differences[k].differences = <<"missing_in_prod">>
                /\ Shows(differences[k].subgraph1, data1[i])
                /\ differences[k].prod = NULL
    /\ \A j \in DOMAIN data2 :
         data2[j].identifier \notin Ids1 =>
           /\ Cardinality(RecordsFor(data2[j].identifier)) = 1
           /\ \A k \in RecordsFor(data2[j].identifier) :
                /\ differences[k].differences = <<"missing_in_subgraph1">>
                /\ Shows(differences[k].prod, data2[j])
                /\ differences[k].subgraph1 = NULL

\* token "1" only in data1 and token "2" only in data2, both reported
C4_Witness ==
  /\ dpc = "done"
  /\ Ids1 = {"1"}
  /\ Ids2 = {"2"}
  /\ Len(differences) = 2
  /\ differences[1].differences = <<"missing_in_prod">>
  /\ differences[2].differences = <<"missing_in_subgraph1">>

ComparedFields == {"name", "artistName", "editions"}

\* the compared fields on which tokens t and u differ
Differing(t, u) == {f \in ComparedFields : t[f] # u[f]}

Range(seq) == {seq[i] : i \in DOMAIN seq}

\* C5: an identifier that both lists hold has a record if and only if name,
\* artistName or editions differ, the record lists exactly the fields that
\* differ and shows both tokens; two identical lists give no record at all
C5_SharedTokens ==
  dpc = "done" =>
    /\ \A i \in DOMAIN data1, j \in DOMAIN data2 :
         data1[i].identifier = data2[j].identifier =>
           /\ (RecordsFor(data1[i].identifier) # {}) <=> (Differing(data1[i], data2[j]) # {})
           /\ Cardinality(RecordsFor(data1[i].identifier)) <= 1
           /\ \A k \in RecordsFor(data1[i].identifier) :
                /\ Range(differences[k].differences) = Differing(data1[i], data2[j])
                /\ Len(differences[k].differences) = Cardinality(Differing(data1[i], data2[j]))
                /\ Shows(differences[k].subgraph1, data1[i])
                /\ Shows(differences[k].prod, data2[j])
    /\ data1 = data2 => differences = <<>>

\* the same token with editions 3 on one side and 4 on the other, name and
\* artist equal: one record, listing editions only
C5_Witness ==
  /\ dpc = "done"
  /\ Len(data1) = 2
  /\ Len(differences) = 1
  /\ differences[1].differences = <<"editions">>
  /\ differences[1].subgraph1.editions = 3
  /\ differences[1].prod.editions = 4

\* ----------------------------------------- claims on the keyed collection diff
ContractKeys == {contractData[i].key : i \in DOMAIN contractData}
SubgraphIds == {collectionsData[i].id : i \in DOMAIN collectionsData}

\* the places of the returned array whose record is about collection id
KeyedRecordsFor(id) ==
  {k \in DOMAIN aggregatedDifferences : aggregatedDifferences[k].id = id}

\* what a record shows of the contract metadata kept under key id
ShowsContract(snapshot, id, metadata) ==
  snapshot = [name |-> metadata.name, artistName |-> metadata.artistName,
              editions |-> metadata.editions, id |-> id]

\* C6: a collection id on one side only has exactly one record
\* (missing_in_subgraph with the contract collection, or missing_in_contract
\* with the subgraph collection); an id on both sides has a record if and only
\* if name, artistName or editions differ, and the record carries both
\* collections; no record is about an id that neither side holds
C6_KeyedDiff ==
  kpc = "done" =>
    /\ \A i \in DOMAIN contractData :
         contractData[i].key \notin SubgraphIds =>
           /\ Cardinality(KeyedRecordsFor(contractData[i].key)) = 1
           /\ \A k \in KeyedRecordsFor(contractData[i].key) :
                /\ aggregatedDifferences[k].differences = <<"missing_in_subgraph">>
                /\ aggregatedDifferences[k].subgraph = NULL
                /\ ShowsContract(aggregatedDifferences[k].contract,
                                 contractData[i].key, contractData[i].value)
    /\ \A j \in DOMAIN collectionsData :
         collectionsData[j].id \notin ContractKeys =>
           /\ Cardinality(KeyedRecordsFor(collectionsData[j].id)) = 1
           /\ \A k \in KeyedRecordsFor(collectionsData[j].id) :
                /\ aggregatedDifferences[k].differences = <<"missing_in_contract">>
                /\ aggregatedDifferences[k].subgraph = collectionsData[j]
                /\ aggregatedDifferences[k].contract = NULL
    /\ \A i \in DOMAIN contractData, j \in DOMAIN collectionsData :
         contractData[i].key = collectionsData[j].id =>
           /\ (KeyedRecordsFor(collectionsData[j].id) # {})
                <=> (Differing(collectionsData[j], contractData[i].value) # {})
           /\ Cardinality(KeyedRecordsFor(collectionsData[j].id)) <= 1
           /\ \A k \in KeyedRecordsFor(collectionsData[j].id) :
                /\ aggregatedDifferences[k].subgraph = collectionsData[j]
                /\ ShowsContract(aggregatedDifferences[k].contract,
                                 contractData[i].key, contractData[i].value)
    /\ \A k \in DOMAIN aggregatedDifferences :
         aggregatedDifferences[k].id \in ContractKeys \cup SubgraphIds

\* collection "1" on both sides with editions 3 against 4, collection "2" in
\* the contract data only
C6_Witness ==
  /\ kpc = "done"
  /\ SubgraphIds = {"1"}
  /\ ContractKeys = {"1", "2"}
  /\ Len(aggregatedDifferences) = 2
  /\ aggregatedDifferences[1].differences = <<"editions">>
  /\ aggregatedDifferences[1].subgraph.editions = 3
  /\ aggregatedDifferences[1].contract.editions = 4
  /\ aggregatedDifferences[2].differences = <<"missing_in_subgraph">>

\* ------------------------------------ claims on the positional collection diff
\* the places of the returned array whose record is about the 0-based index i
PosRecordsFor(i) ==
  {k \in DOMAIN collectionDifferences : collectionDifferences[k].id = toString(i)}

ShowsCollection(snapshot, col) ==
  snapshot = [name |-> col.name, artistName |-> col.artistName,
              editions |-> col.editions]

Longest == IF Len(collections1) >= Len(collections2) THEN Len(collections1)
           ELSE Len(collections2)

\* C7: the lists are compared place by place: for every index i below the
\* longer length there is a missing_in_subgraph1 record with the second list's
\* collection when the first list ends before i, a missing_in_prod record with
\* the first list's collection when the second list ends before i, and otherwise
\* a record with both collections if and only if name, artistName or editions
\* differ at i; nothing else is reported
C7_PositionalDiff ==
  ppc = "done" =>
    /\ \A i \in 0..(Longest - 1) :
         /\ Cardinality(PosRecordsFor(i)) <= 1
         /\ i >= Len(collections1) =>
              /\ PosRecordsFor(i) # {}
              /\ \A k \in PosRecordsFor(i) :
                   /\ collectionDifferences[k].differences = <<"missing_in_subgraph1">>
                   /\ ShowsCollection(collectionDifferences[k].prod, collections2[i + 1])
                   /\ collectionDifferences[k].subgraph1 = NULL
         /\ i >= Len(collections2) =>
              /\ PosRecordsFor(i) # {}
              /\ \A k \in PosRecordsFor(i) :
                   /\ collectionDifferences[k].differences = <<"missing_in_prod">>
                   /\ ShowsCollection(collectionDifferences[k].subgraph1, collections1[i + 1])
                   /\ collectionDifferences[k].prod = NULL
         /\ (i < Len(collections1) /\ i < Len(collections2)) =>
              /\ (PosRecordsFor(i) # {})
                   <=> (Differing(collections1[i + 1], collections2[i + 1]) # {})
              /\ \A k \in PosRecordsFor(i) :
                   /\ Range(collectionDifferences[k].differences)
                        = Differing(collections1[i + 1], collections2[i + 1])
                   /\ ShowsCollection(collectionDifferences[k].subgraph1, collections1[i + 1])
                   /\ ShowsCollection(collectionDifferences[k].prod, collections2[i + 1])
    /\ \A k \in DOMAIN collectionDifferences :
         \E i \in 0..(Longest - 1) : k \in PosRecordsFor(i)

\* the second list is the first one with one more collection in front: both
\* collections of the first list are in the second list with the same name,
\* artist and editions, and yet every index is reported, the last as missing
C7_Witness ==
  /\ ppc = "done"
  /\ Len(collections1) = 2
  /\ Len(collections2) = 3
  /\ \A i \in 1..2 : CollectionSnapshot(collections1[i]) = CollectionSnapshot(collections2[i + 1])
  /\ Len(collectionDifferences) = 3
  /\ collectionDifferences[3].differences = <<"missing_in_subgraph1">>

\* ------------------------------------------------- claims on the paginated fetch
FetchPcs == {"fetch1", "fetch2"}

\* C8 as stated: once a batch came back short (not empty, but smaller than the
\* page size), the fetch sends no further request
C8_NoRequestAfterShortBatch ==
  [][(pc \in FetchPcs /\ lastBatch > 0 /\ lastBatch < batchSize)
       => requests' = requests]_vars

\* C8 as amended: the fetch stops sending requests when a batch came back empty
\* or the record cap is reached, and only then: the step after any other batch,
\* a short one included, is one more request
C8_StopsAfterEmptyBatchOrCap ==
  [][(pc \in FetchPcs) =>
       ((requests' = requests)
          <=> (lastBatch = 0 \/ Len(allTokens) >= maxResults))]_vars

\* a short batch of one token was followed by a second request, which came
\* back empty
C8_Witness ==
  /\ pc \in FetchPcs
  /\ requests = 2
  /\ Len(allTokens) = 1
  /\ lastBatch = 0

\* ---------------------------------------------- claims on the runs of main
\* C9: when a side is reached, the fetch is called if and only if the token
\* snapshot of that side does not exist; an existing snapshot is what the run
\* uses and it is never written again; a run after a run in which both fetches
\* completed sends no request
C9_FetchOnlyWithoutSnapshot ==
  /\ [][\A s \in Sides :
          /\ pc = SidePc(s) =>
               /\ (pc' = FetchPc(s)) <=> ~files[SnapshotFile(s)].exists
               /\ files[SnapshotFile(s)].exists =>
                    (IF s = 1 THEN data1' ELSE data2') = files[SnapshotFile(s)].content
          /\ files[SnapshotFile(s)].exists =>
               files'[SnapshotFile(s)] = files[SnapshotFile(s)]]_vars
  /\ [](prevFetched = Sides => (requests = 0 /\ pc \notin FetchPcs))

\* the second run, after a first run that fetched both sides, has loaded both
\* snapshots and finished without a request
C9_Witness ==
  /\ run = 2
  /\ pc = "done"
  /\ prevFetched = Sides
  /\ requests = 0
  /\ Len(data1) = 3
  /\ data1 = files["subgraph1_data.json"].content
  /\ Len(data2) = 4

LaterArtifacts ==
  {"subgraph_differences.json", "subgraph1_collections.json",
   "prod_collections.json", "collection_differences.json"}

\* C10: when the fetch of a side has failed, the run is over with the snapshot
\* of that side and the later artifacts as the run found them (for a fetched
\* side: no snapshot), and a snapshot exists only for a side whose fetch
\* completed, holding what the subgraph holds up to the record cap
C10_FailedFetchAborts ==
  /\ pc = "aborted" =>
       /\ failedSide \in Sides
       /\ ~files[SnapshotFile(failedSide)].exists
       /\ \A f \in LaterArtifacts : files[f] = filesAtStart[f]
  /\ failedSide # 0 => pc = "aborted"
  /\ \A s \in Sides :
       files[SnapshotFile(s)].exists =>
         /\ s \in completed
         /\ files[SnapshotFile(s)].content
              = SubSeq(server[s], 1,
                       IF Len(server[s]) <= maxResults THEN Len(server[s])
                       ELSE maxResults)

\* the fetch of side 2 failed at its second request, after a first batch of
\* two tokens and after side 1 was fetched and saved
C10_Witness ==
  /\ pc = "aborted"
  /\ failedSide = 2
  /\ Len(allTokens) = 2
  /\ files["subgraph1_data.json"].exists
  /\ ~files["prod_data.json"].exists
  /\ ~files["subgraph_differences.json"].exists

\* ---------------------------------------- claims on the contract comparison
CollectionIds(cols) == [i \in 1..Len(cols) |-> cols[i].id]

ContractArtifacts ==
  {"contract_metadata.json", "contract_collection_differences.json",
   "contract_collections.json", "contract_collection_aggregated_differences.json"}

\* C11: a failed contract read does not stop the run of contract-comparison.ts.
\* The contract is read once for every collection of the loaded list, in list
\* order, whatever reads fail: the reads made so far are always the ids of the
\* first collections of the list, a failed read never leads to the error exit,
\* the comparison starts only after every collection was read, and the
\* finished run has written the contract metadata and both difference reports.
C11_FailedReadDoesNotStop ==
  /\ Len(reads) <= Len(collectionsData)
  /\ reads = SubSeq(CollectionIds(collectionsData), 1, Len(reads))
  /\ failed \subseteq 1..Len(reads)
  /\ (failed # {}) => (cpc # "error")
  /\ (cpc = "reading") => (Len(reads) < Len(collectionsData))
  /\ (cpc \in {"compare", "done"}) => (reads = CollectionIds(collectionsData))
  /\ (cpc = "done") =>
       /\ files["contract_metadata.json"] = [exists |-> TRUE, content |-> contractData]
       /\ files["contract_collection_differences.json"]
            = [exists |-> TRUE, content |-> collectionDifferences]
       /\ collectionDifferences = compareData(contractData, collectionsData)
       /\ files["contract_collection_aggregated_differences.json"]
            = [exists |-> TRUE, content |-> aggregatedDifferences]
       /\ aggregatedDifferences = compareCollectionData(contractData, collectionsData)

\* a finished run over three collections in which the second read failed and
\* the other two did not
C11_Witness ==
  /\ cpc = "done"
  /\ Len(collectionsData) = 3
  /\ failed = {2}
  /\ Len(reads) = 3
  /\ files["contract_metadata.json"].exists
  /\ files["contract_collection_differences.json"].exists
  /\ files["contract_collection_aggregated_differences.json"].exists

PrerequisiteMissing ==
  \/ ~filesAtStart[CollectionsFile].exists
  \/ ~filesAtStart[SubgraphDataFile].exists

FirstStage == "subgraph-comparison.ts"

\* the text names the script of the stage to run first
NamesFirstStage(msg) ==
  \E i \in 1..Len(msg) :
    /\ i + Len(FirstStage) - 1 <= Len(msg)
    /\ SubSeq(msg, i, i + Len(FirstStage) - 1) = FirstStage

\* C12: when the collections snapshot or the token snapshot of the subgraph
\* does not exist at the start of a run of contract-comparison.ts, the run
\* makes no contract read and writes no file, in every state, and its only
\* step is the one from the start to the error exit, with a message that names
\* subgraph-comparison.ts as the stage to run first; the error exit is taken
\* in no other run.
C12_MissingSnapshotIsFatal ==
  /\ [](PrerequisiteMissing =>
          /\ reads = <<>>
          /\ files = filesAtStart
          /\ cpc \in {"start", "error"}
          /\ (cpc = "error") => NamesFirstStage(errorMessage))
  /\ []((cpc = "error") => PrerequisiteMissing)
  /\ [][PrerequisiteMissing => (cpc = "start" /\ cpc' = "error")]_vars

\* a run that ended with the error although the token snapshot exists: the
\* collections snapshot is the missing one
C12_Witness ==
  /\ cpc = "error"
  /\ ~filesAtStart[CollectionsFile].exists
  /\ filesAtStart[SubgraphDataFile].exists
  /\ errorMessage = CollectionsMissing
  /\ reads = <<>>
  /\ \A f \in ContractArtifacts : ~files[f].exists

\* the record compareData gives for a collection the contract data lacks
MissingInContract(collection) ==
  [id |-> collection.id,
   differences |-> <<"missing_in_contract">>,
   subgraph |-> [name |-> collection.name,
                 artistName |-> collection.artistName,
                 editions |-> collection.editions],
   contract |-> NULL]

ReportedPlaces ==
  {i \in 0..(Longest - 1) :
     \/ i >= Len(collections1)
     \/ i >= Len(collections2)
     \/ collections1[i + 1].name # collections2[i + 1].name
     \/ collections1[i + 1].artistName # collections2[i + 1].artistName
     \/ collections1[i + 1].editions # collections2[i + 1].editions}

\* the k-th of them in increasing order: the place of the k-th record
PlaceOfRecord(k) ==
  CHOOSE i \in ReportedPlaces : Cardinality({j \in ReportedPlaces : j < i}) = k - 1

====
